---- MODULE Spec2Model ----
(***************************************************************************)
(* Model of the leaks-suite indexer (leaks_indexer/src/main.rs) and of the *)
(* shared library (lib/src/lib.rs).                                        *)
(*                                                                         *)
(* A string is a sequence of one-character strings, indexed from 1; the    *)
(* byte offsets of the Rust code (0-based) are kept 0-based in the         *)
(* definitions that model slicing.  All modelled text is ASCII, so byte    *)
(* offsets and character offsets coincide.                                 *)
(***************************************************************************)
EXTENDS Integers, Sequences, FiniteSets, TLC

VARIABLES
    input_type,     \* Indexer.input_type
    st,             \* Indexer.st: the text the SuffixTable was built from
    input,          \* plain mode: the items yielded by reader.lines()
    archive,        \* archive mode: the members of the tar stream, in order
    pc,             \* position of the run
    entry_i,        \* number of files obtained from archive.entries()
    line_i,         \* number of items taken from the current reader.lines()
    output_writer,  \* rows written to the csv writer
    error_writer,   \* lines written to the error file
    call_args,      \* unit harness: the arguments of the function under test
    call_rets       \* unit harness: the values returned so far

vars == <<input_type, st, input, archive, pc, entry_i, line_i,
          output_writer, error_writer, call_args, call_rets>>

-----------------------------------------------------------------------------
(* Characters *)

LowerSeq == <<"a","b","c","d","e","f","g","h","i","j","k","l","m",
              "n","o","p","q","r","s","t","u","v","w","x","y","z">>
UpperSeq == <<"A","B","C","D","E","F","G","H","I","J","K","L","M",
              "N","O","P","Q","R","S","T","U","V","W","X","Y","Z">>
Lowers == {LowerSeq[i] : i \in 1..Len(LowerSeq)}
Uppers == {UpperSeq[i] : i \in 1..Len(UpperSeq)}
Digits == {"0","1","2","3","4","5","6","7","8","9"}

\* [a-zA-Z0-9]
AlNum == Lowers \cup Uppers \cup Digits
\* [_\-\.]
UserPunct == {"_", "-", "."}
\* [:;]
PassSep == {":", ";"}
\* char::is_whitespace, restricted to the ASCII characters of the model
WhiteSpace == {" ", "\t", "\r"}

\* char::to_lowercase on ASCII
CharToLower(c) ==
    IF c \in Uppers
    THEN LowerSeq[CHOOSE i \in 1..Len(UpperSeq) : UpperSeq[i] = c]
    ELSE c

-----------------------------------------------------------------------------
(* String helpers (Rust std) *)

\* &s[from..to] with 0-based byte offsets, `to` exclusive
Slice(s, from, to) == SubSeq(s, from + 1, to)

\* &s[from..]
SliceFrom(s, from) == SubSeq(s, from + 1, Len(s))

\* str::to_lowercase
to_lowercase(s) == [i \in 1..Len(s) |-> CharToLower(s[i])]

\* str::trim: strips leading and trailing whitespace
trim(s) ==
    LET keep == {i \in 1..Len(s) : s[i] \notin WhiteSpace}
    IN  IF keep = {} THEN << >>
        ELSE LET lo == CHOOSE i \in keep : \A j \in keep : i <= j
                 hi == CHOOSE i \in keep : \A j \in keep : j <= i
             IN  SubSeq(s, lo, hi)

\* str::replace("..", "."): one left-to-right pass over non-overlapping matches
RECURSIVE ReplaceDotDot(_, _)
ReplaceDotDot(s, i) ==
    IF i > Len(s) THEN << >>
    ELSE IF i < Len(s) /\ s[i] = "." /\ s[i + 1] = "."
         THEN <<".">> \o ReplaceDotDot(s, i + 2)
         ELSE <<s[i]>> \o ReplaceDotDot(s, i + 1)

replace_dotdot(s) == ReplaceDotDot(s, 1)

\* str::starts_with / occurrence of q in s at 0-based offset p
OccursAt(s, q, p) ==
    /\ p + Len(q) <= Len(s)
    /\ \A k \in 1..Len(q) : s[p + k] = q[k]

\* str::match_indices('.'): the 0-based offsets of the dots of s, ascending
DotIndices(s) == {i - 1 : i \in {j \in 1..Len(s) : s[j] = "."}}

\* the n-th largest element of a finite set of naturals (n >= 1), or -1
RECURSIVE NthLargest(_, _)
NthLargest(S, n) ==
    IF S = {} THEN -1
    ELSE LET m == CHOOSE x \in S : \A y \in S : y <= x
         IN  IF n = 1 THEN m ELSE NthLargest(S \ {m}, n - 1)

-----------------------------------------------------------------------------
(* lib/src/lib.rs *)

\* SuffixTable::new(text): the table answers queries about the text it holds
SuffixTableNew(text) == text

\* SuffixTable::positions(query): the offsets at which query occurs in the
\* text of the table; nothing for an empty query or an empty text
positions(table, query) ==
    IF Len(table) = 0 \/ Len(query) = 0 THEN {}
    ELSE {p \in 0..Len(table) : OccursAt(table, query, p)}

\* parse_domain with the boundary of a two-dot domain left at the second
\* dot when the compound suffix matches (the (0, 0) default replaced)
parse_domain_keeps_second_dot(domain, table) ==
    LET dots  == DotIndices(domain)
        first == NthLargest(dots, 1)
        elem  == NthLargest(dots, 2)
        third == NthLargest(dots, 3)
    IN  IF first # -1 /\ elem # -1
        THEN LET sd  == elem
                 sdn == sd + 1
                 td  == IF third # -1 THEN third ELSE sd
                 tdn == IF third # -1 THEN third + 1 ELSE sdn
                 tld_part == SliceFrom(domain, sdn)
                 tld_pos  == positions(table, tld_part)
             IN  IF tld_pos # {}
                 THEN [subdomain |-> Slice(domain, 0, td),
                       domain    |-> SliceFrom(domain, tdn)]
                 ELSE [subdomain |-> Slice(domain, 0, sd),
                       domain    |-> SliceFrom(domain, sdn)]
        ELSE [subdomain |-> << >>, domain |-> domain]

\* parse_domain taking a single dot for a boundary (the second
\* parts.next() not required)
parse_domain_splits_one_dot(domain, table) ==
    LET dots  == DotIndices(domain)
        first == NthLargest(dots, 1)
        elem  == NthLargest(dots, 2)
        third == NthLargest(dots, 3)
    IN  IF first # -1
        THEN LET sd  == IF elem # -1 THEN elem ELSE first
                 sdn == sd + 1
                 td  == IF third # -1 THEN third ELSE 0
                 tdn == IF third # -1 THEN third + 1 ELSE 0
                 tld_part == SliceFrom(domain, sdn)
                 tld_pos  == positions(table, tld_part)
             IN  IF tld_pos # {}
                 THEN [subdomain |-> Slice(domain, 0, td),
                       domain    |-> SliceFrom(domain, tdn)]
                 ELSE [subdomain |-> Slice(domain, 0, sd),
                       domain    |-> SliceFrom(domain, sdn)]
        ELSE [subdomain |-> << >>, domain |-> domain]

\* parse_domain with the registrable domain sliced from the dot itself
\* (&domain[sd..] and &domain[td..])
parse_domain_keeps_dot(domain, table) ==
    LET dots  == DotIndices(domain)
        first == NthLargest(dots, 1)
        elem  == NthLargest(dots, 2)
        third == NthLargest(dots, 3)
    IN  IF first # -1 /\ elem # -1
        THEN LET sd  == elem
                 sdn == sd + 1
                 td  == IF third # -1 THEN third ELSE 0
                 tdn == IF third # -1 THEN third ELSE 0
                 tld_part == SliceFrom(domain, sdn)
                 tld_pos  == positions(table, tld_part)
             IN  IF tld_pos # {}
                 THEN [subdomain |-> Slice(domain, 0, td),
                       domain    |-> SliceFrom(domain, tdn)]
                 ELSE [subdomain |-> Slice(domain, 0, sd),
                       domain    |-> SliceFrom(domain, sd)]
        ELSE [subdomain |-> << >>, domain |-> domain]

\* parse_domain(domain, st) -> (subdomain, domain)
parse_domain(domain, table) ==
    LET dots  == DotIndices(domain)
        first == NthLargest(dots, 1)
        elem  == NthLargest(dots, 2)
        third == NthLargest(dots, 3)
    IN  IF first # -1 /\ elem # -1
        THEN LET sd  == elem
                 sdn == sd + 1
                 td  == IF third # -1 THEN third ELSE 0
                 tdn == IF third # -1 THEN third + 1 ELSE 0
                 tld_part == SliceFrom(domain, sdn)
                 tld_pos  == positions(table, tld_part)
             IN  IF tld_pos # {}
                 THEN [subdomain |-> Slice(domain, 0, td),
                       domain    |-> SliceFrom(domain, tdn)]
                 ELSE [subdomain |-> Slice(domain, 0, sd),
                       domain    |-> SliceFrom(domain, sdn)]
        ELSE [subdomain |-> << >>, domain |-> domain]

\* "// ===BEGIN PRIVATE DOMAINS"
PrivateDomainsMark ==
    <<"/","/"," ","=","=","=","B","E","G","I","N"," ",
      "P","R","I","V","A","T","E"," ","D","O","M","A","I","N","S">>

\* "//"
CommentMark == <<"/","/">>

\* str::starts_with
starts_with(s, q) == OccursAt(s, q, 0)

\* String::pop: the last character removed, nothing on the empty string
pop(s) == IF s = << >> THEN s ELSE SubSeq(s, 1, Len(s) - 1)

\* the loop of parse_tld from item i on, res being what was pushed so far;
\* line.unwrap() panics on an item that is Err
RECURSIVE ParseTldLoop(_, _, _)
ParseTldLoop(lines, i, res) ==
    IF i > Len(lines) THEN [ok |-> TRUE, res |-> res]
    ELSE IF ~lines[i].ok THEN [ok |-> FALSE, res |-> res]
    ELSE LET trimmed == trim(lines[i].text)
         IN  IF starts_with(trimmed, PrivateDomainsMark)
             THEN [ok |-> TRUE, res |-> res]
             ELSE IF trimmed # << >> /\ ~starts_with(trimmed, CommentMark)
                  THEN ParseTldLoop(lines, i + 1, res \o trimmed \o <<" ">>)
                  ELSE ParseTldLoop(lines, i + 1, res)

\* the loop of parse_tld with the mark passed over like any other comment
RECURSIVE ParseTldLoop_continues(_, _, _)
ParseTldLoop_continues(lines, i, res) ==
    IF i > Len(lines) THEN [ok |-> TRUE, res |-> res]
    ELSE IF ~lines[i].ok THEN [ok |-> FALSE, res |-> res]
    ELSE LET trimmed == trim(lines[i].text)
         IN  IF trimmed # << >> /\ ~starts_with(trimmed, CommentMark)
             THEN ParseTldLoop_continues(lines, i + 1, res \o trimmed \o <<" ">>)
             ELSE ParseTldLoop_continues(lines, i + 1, res)

\* parse_tld without the break at the mark
parse_tld_reads_on(lines) ==
    LET done == ParseTldLoop_continues(lines, 1, << >>)
    IN  IF done.ok THEN [ok |-> TRUE, res |-> pop(done.res)]
        ELSE [ok |-> FALSE, res |-> << >>]

\* parse_tld(reader) -> String, or a panic ([ok |-> FALSE])
parse_tld(lines) ==
    LET done == ParseTldLoop(lines, 1, << >>)
    IN  IF done.ok THEN [ok |-> TRUE, res |-> pop(done.res)]
        ELSE [ok |-> FALSE, res |-> << >>]

-----------------------------------------------------------------------------
(* leaks_indexer/src/main.rs: the two patterns *)

UserRunMax    == 35   \* [a-zA-Z0-9]{1,35} and [a-zA-Z0-9]{0,35}
UserGroupsMax == 10   \* (?:[_\-\.][a-zA-Z0-9]{0,35}){0,10}
LabelMax      == 63   \* 1 + {0,61} + 1 characters of a domain label
TldMin        == 2    \* [a-zA-Z0-9][a-zA-Z0-9]{0,61}[a-zA-Z0-9]
DotRunMax     == 2    \* \.{1,2} between labels
TrailDotsMax  == 10   \* \.{0,10} after the domain
UsernameCap   == 40   \* username.len() > 40

\* the tail of [a-zA-Z0-9]{1,35}(?:[_\-\.][a-zA-Z0-9]{0,35}){0,10} from
\* offset i on: run = alphanumerics matched by the current {..,35},
\* groups = punctuation groups opened so far
RECURSIVE UserTail(_, _, _, _)
UserTail(s, i, run, groups) ==
    IF i > Len(s) THEN TRUE
    ELSE IF s[i] \in AlNum
         THEN run + 1 <= UserRunMax /\ UserTail(s, i + 1, run + 1, groups)
         ELSE IF s[i] \in UserPunct
              THEN groups + 1 <= UserGroupsMax /\ UserTail(s, i + 1, 0, groups + 1)
              ELSE FALSE

\* s matches ^[a-zA-Z0-9]{1,35}(?:[_\-\.][a-zA-Z0-9]{0,35}){0,10}$
UsernameRe(s) ==
    /\ Len(s) >= 1
    /\ s[1] \in AlNum
    /\ UserTail(s, 2, 1, 0)

\* the tail of (?:L\.{1,2})+T from offset i on, where
\*   L = [a-zA-Z0-9](?:[a-zA-Z0-9-]{0,61}[a-zA-Z0-9])?
\*   T = [a-zA-Z0-9][a-zA-Z0-9]{0,61}[a-zA-Z0-9]
\* len = characters of the current label, hy = it holds a hyphen,
\* lastHy = its last character is a hyphen, labels = an L was completed
RECURSIVE DomainTail(_, _, _, _, _, _)
DomainTail(s, i, len, hy, lastHy, labels) ==
    IF i > Len(s)
    THEN labels /\ len >= TldMin /\ len <= LabelMax /\ ~hy
    ELSE IF s[i] \in AlNum
         THEN len + 1 <= LabelMax /\ DomainTail(s, i + 1, len + 1, hy, FALSE, labels)
         ELSE IF s[i] = "-"
              THEN /\ len >= 1
                   /\ len + 1 <= LabelMax
                   /\ DomainTail(s, i + 1, len + 1, TRUE, TRUE, labels)
              ELSE IF s[i] = "."
                   THEN /\ len >= 1
                        /\ ~lastHy
                        /\ \E d \in 1..DotRunMax :
                             /\ \A k \in 0..(d - 1) : i + k <= Len(s) /\ s[i + k] = "."
                             /\ DomainTail(s, i + d, 0, FALSE, FALSE, TRUE)
                   ELSE FALSE

\* the domain group with the dotted labels optional, (?:L\.{1,2})*T
DomainRe_single_label(s) ==
    DomainTail(s, 1, 0, FALSE, FALSE, TRUE)

\* s matches ^(?:L\.{1,2})+T$
DomainRe(s) ==
    DomainTail(s, 1, 0, FALSE, FALSE, FALSE)

\* s matches ^\.{0,10}$
TrailDotsRe(s) == Len(s) <= TrailDotsMax /\ \A i \in 1..Len(s) : s[i] = "."

\* the password group written [^@]+ : no '@' inside a password
PasswordRe_no_at(s) ==
    Len(s) >= 1 /\ \A i \in 1..Len(s) : s[i] # "\n" /\ s[i] # "@"

\* s matches ^.+$ ('.' is any character but the line feed)
PasswordRe(s) ==
    Len(s) >= 1 /\ \A i \in 1..Len(s) : s[i] # "\n"

\* Of the ways a pattern matches the whole entry, the one the regex engine
\* reports: its quantifiers are greedy, so the earlier group takes as much as
\* it can.  A way is <<a, b, c>>: the offsets that end the three parts the
\* pattern reads from left to right.
Preferred(ways) ==
    CHOOSE w \in ways : \A v \in ways :
        \/ w[1] > v[1]
        \/ w[1] = v[1] /\ w[2] > v[2]
        \/ w[1] = v[1] /\ w[2] = v[2] /\ w[3] >= v[3]

\* ^(username)[:;](.+)@(domain)\.{0,10}$ : <<i, j, k>> with the separator at
\* i, the '@' at j and the domain ending at k (1-based)
CredFirstWays(entry) ==
    LET n == Len(entry)
    IN  UNION { UNION { { <<i, j, k>> : k \in { k \in (j + 1)..n :
                                /\ TrailDotsRe(SubSeq(entry, k + 1, n))
                                /\ DomainRe(SubSeq(entry, j + 1, k)) } }
                        : j \in { j \in (i + 1)..n :
                                /\ entry[j] = "@"
                                /\ PasswordRe(SubSeq(entry, i + 1, j - 1)) } }
                : i \in { i \in 1..n :
                                /\ entry[i] \in PassSep
                                /\ UsernameRe(SubSeq(entry, 1, i - 1)) } }

\* CRED_FIRST_RE.captures(entry): no match, or the three groups
CRED_FIRST_RE(entry) ==
    LET ways == CredFirstWays(entry)
    IN  IF ways = {} THEN [matched |-> FALSE]
        ELSE LET w == Preferred(ways)
             IN  [matched |-> TRUE,
                  g1 |-> SubSeq(entry, 1, w[1] - 1),
                  g2 |-> SubSeq(entry, w[1] + 1, w[2] - 1),
                  g3 |-> SubSeq(entry, w[2] + 1, w[3])]

\* ^(username)@(domain)\.{0,10}[:;](.+)$ : <<i, k, j>> with the '@' at i, the
\* domain ending at k and the separator at j (1-based)
CredLastWays(entry) ==
    LET n == Len(entry)
    IN  UNION { UNION { { <<i, k, j>> : j \in { j \in (k + 1)..n :
                                /\ entry[j] \in PassSep
                                /\ TrailDotsRe(SubSeq(entry, k + 1, j - 1))
                                /\ PasswordRe(SubSeq(entry, j + 1, n)) } }
                        : k \in { k \in (i + 1)..n :
                                DomainRe(SubSeq(entry, i + 1, k)) } }
                : i \in { i \in 1..n :
                                /\ entry[i] = "@"
                                /\ UsernameRe(SubSeq(entry, 1, i - 1)) } }

\* CRED_LAST_RE.captures(entry): no match, or the three groups
CRED_LAST_RE(entry) ==
    LET ways == CredLastWays(entry)
    IN  IF ways = {} THEN [matched |-> FALSE]
        ELSE LET w == Preferred(ways)
             IN  [matched |-> TRUE,
                  g1 |-> SubSeq(entry, 1, w[1] - 1),
                  g2 |-> SubSeq(entry, w[1] + 1, w[2]),
                  g3 |-> SubSeq(entry, w[3] + 1, Len(entry))]

-----------------------------------------------------------------------------
(* leaks_indexer/src/main.rs: regex_extract, parse_entry *)

\* Captures::len(): the whole match and the three groups
CapsLen == 4

ErrNoSeparator == "Failed to parse entry, separators were not found"
ErrNoMatch     == "Failed to parse entry"
ErrTooLong     == "username to long"
ErrEmptyDomain == "domain is empty"

Err(msg) == [ok |-> FALSE, err |-> msg]

\* entry.find(|c| c == '@' || c == ':'): the 0-based offset of the first
\* '@' or ':', or -1 for None
FindSeparator(entry) ==
    LET hits == {i \in 1..Len(entry) : entry[i] = "@" \/ entry[i] = ":"}
    IN  IF hits = {} THEN -1
        ELSE (CHOOSE i \in hits : \A j \in hits : i <= j) - 1

\* regex_extract with the groups of the credentials-first pattern read in the
\* order of the other pattern (group 2 as the domain, group 3 as the password)
regex_extract_swapped(entry) ==
    LET n == FindSeparator(entry)
    IN  IF n = -1 THEN Err(ErrNoSeparator)
        ELSE LET credentials_first == (entry[n + 1] = ":")
                 caps == IF credentials_first THEN CRED_FIRST_RE(entry)
                                              ELSE CRED_LAST_RE(entry)
             IN  IF ~caps.matched THEN Err(ErrNoMatch)
                 ELSE [ok |-> TRUE,
                       username |-> caps.g1,
                       domain   |-> caps.g2,
                       password |-> caps.g3]

\* regex_extract(entry) -> Ok((username, domain, password)) | Err(message)
regex_extract(entry) ==
    LET n == FindSeparator(entry)
    IN  IF n = -1 THEN Err(ErrNoSeparator)
        ELSE LET credentials_first == (entry[n + 1] = ":")
             IN  IF credentials_first
                 THEN LET caps == CRED_FIRST_RE(entry)
                      IN  IF ~caps.matched THEN Err(ErrNoMatch)
                          ELSE IF CapsLen < 3 THEN Err(ErrNoMatch)
                          ELSE [ok |-> TRUE,
                                username |-> caps.g1,
                                domain   |-> caps.g3,
                                password |-> caps.g2]
                 ELSE LET caps == CRED_LAST_RE(entry)
                      IN  IF ~caps.matched THEN Err(ErrNoMatch)
                          ELSE IF CapsLen < 3 THEN Err(ErrNoMatch)
                          ELSE [ok |-> TRUE,
                                username |-> caps.g1,
                                domain   |-> caps.g2,
                                password |-> caps.g3]

\* parse_entry with the length check written >= 40
parse_entry_ge(entry, table) ==
    LET ex == regex_extract(entry)
    IN  IF ~ex.ok THEN ex
        ELSE IF Len(ex.username) >= UsernameCap THEN Err(ErrTooLong)
        ELSE LET trimmed == trim(ex.domain)
             IN  IF trimmed = << >> THEN Err(ErrEmptyDomain)
                 ELSE LET domain == replace_dotdot(to_lowercase(trimmed))
                          split  == parse_domain(domain, table)
                      IN  [ok |-> TRUE,
                           username  |-> ex.username,
                           password  |-> ex.password,
                           subdomain |-> split.subdomain,
                           domain    |-> split.domain]

\* parse_entry without the to_lowercase step
parse_entry_no_lowercase(entry, table) ==
    LET ex == regex_extract(entry)
    IN  IF ~ex.ok THEN ex
        ELSE IF Len(ex.username) > UsernameCap THEN Err(ErrTooLong)
        ELSE LET trimmed == trim(ex.domain)
             IN  IF trimmed = << >> THEN Err(ErrEmptyDomain)
                 ELSE LET domain == replace_dotdot(trimmed)
                          split  == parse_domain(domain, table)
                      IN  [ok |-> TRUE,
                           username  |-> ex.username,
                           password  |-> ex.password,
                           subdomain |-> split.subdomain,
                           domain    |-> split.domain]

\* parse_entry(entry, st) -> Ok((username, password, subdomain, domain)) | Err
parse_entry(entry, table) ==
    LET ex == regex_extract(entry)
    IN  IF ~ex.ok THEN ex
        ELSE IF Len(ex.username) > UsernameCap THEN Err(ErrTooLong)
        ELSE LET trimmed == trim(ex.domain)
             IN  IF trimmed = << >> THEN Err(ErrEmptyDomain)
                 ELSE LET domain == replace_dotdot(to_lowercase(trimmed))
                          split  == parse_domain(domain, table)
                      IN  [ok |-> TRUE,
                           username  |-> ex.username,
                           password  |-> ex.password,
                           subdomain |-> split.subdomain,
                           domain    |-> split.domain]

-----------------------------------------------------------------------------
(* Bounded inputs *)

\* all strings over the alphabet of length at most n
RECURSIVE StringsUpTo(_, _)
StringsUpTo(alphabet, n) ==
    IF n = 0 THEN {<< >>}
    ELSE LET shorter == StringsUpTo(alphabet, n - 1)
         IN  shorter \cup {Append(x, c) : x \in shorter, c \in alphabet}

\* n copies of the character c
Rep(c, n) == [i \in 1..n |-> c]

\* the entries of a suffix list joined by single spaces, as parse_tld
\* (lib/src/lib.rs) leaves them
RECURSIVE JoinSpace(_)
JoinSpace(list) ==
    IF list = << >> THEN << >>
    ELSE IF Len(list) = 1 THEN list[1]
    ELSE list[1] \o <<" ">> \o JoinSpace(Tail(list))

NoInput == << >>

-----------------------------------------------------------------------------
(* Unit specification of parse_domain: Init draws a domain and a suffix    *)
(* list; the first call splits the domain, the second splits the           *)
(* registrable domain the first call returned.                             *)

MaxDomainLen == 7

DomainAlphabet == {"a", "u", "."}

SplitterDomains == StringsUpTo(DomainAlphabet, MaxDomainLen)

SplitterLists ==
    { << >>,
      << <<"u">> >>,
      << <<"u">>, <<"a",".","u">> >>,
      << <<"u","u">>, <<"a","a",".","u">> >> }

InitParseDomain ==
    /\ call_args \in [domain : SplitterDomains, tlds : SplitterLists]
    /\ st = SuffixTableNew(JoinSpace(call_args.tlds))
    /\ call_rets = << >>
    /\ input_type = "unit"
    /\ input = NoInput
    /\ archive = NoInput
    /\ pc = "parse_domain"
    /\ entry_i = 0
    /\ line_i = 0
    /\ output_writer = << >>
    /\ error_writer = << >>

UnitFrame == UNCHANGED <<input_type, st, input, archive, pc, entry_i, line_i,
                         output_writer, error_writer, call_args>>

\* let (subdomain, domain) = parse_domain(domain, &st);
CallParseDomain ==
    /\ pc = "parse_domain"
    /\ call_rets = << >>
    /\ call_rets' = <<parse_domain(call_args.domain, st)>>
    /\ UnitFrame

\* parse_domain(domain, &st) on the registrable domain just returned
CallParseDomainAgain ==
    /\ pc = "parse_domain"
    /\ Len(call_rets) = 1
    /\ call_rets' = Append(call_rets, parse_domain(call_rets[1].domain, st))
    /\ UnitFrame

NextParseDomain == CallParseDomain \/ CallParseDomainAgain

SpecParseDomain == InitParseDomain /\ [][NextParseDomain]_vars

-----------------------------------------------------------------------------
(* Properties of parse_domain, stated on labels *)

\* the labels of s: the pieces between its dots
RECURSIVE SplitDots(_)
SplitDots(s) ==
    LET dots == {i \in 1..Len(s) : s[i] = "."}
    IN  IF dots = {} THEN <<s>>
        ELSE LET i == CHOOSE d \in dots : \A e \in dots : d <= e
             IN  <<SubSeq(s, 1, i - 1)>> \o SplitDots(SubSeq(s, i + 1, Len(s)))

\* labels joined by single dots
RECURSIVE JoinDots(_)
JoinDots(labels) ==
    IF labels = << >> THEN << >>
    ELSE IF Len(labels) = 1 THEN labels[1]
    ELSE labels[1] \o <<".">> \o JoinDots(Tail(labels))

\* the last k labels of s, joined, and what is left of them
LastLabels(s, k) ==
    LET labels == SplitDots(s)
    IN  JoinDots(SubSeq(labels, Len(labels) - k + 1, Len(labels)))

LeftOfLastLabels(s, k) ==
    LET labels == SplitDots(s)
    IN  JoinDots(SubSeq(labels, 1, Len(labels) - k))

SuffixEntries == {call_args.tlds[i] : i \in 1..Len(call_args.tlds)}

SplitDone == pc = "parse_domain" /\ Len(call_rets) >= 1

\* C4: for a domain with at least two dots, the registrable domain is the
\* last three labels exactly when the last two labels are an entry of the
\* suffix list, and the last two labels otherwise; the subdomain is what is
\* left of it.  Stated for the domains whose labels are all non-empty.
C4_SuffixEntryDecides ==
    (/\ SplitDone
     /\ Len(SplitDots(call_args.domain)) >= 3
     /\ \A i \in 1..Len(SplitDots(call_args.domain)) :
            SplitDots(call_args.domain)[i] # << >>) =>
        LET k == IF LastLabels(call_args.domain, 2) \in SuffixEntries THEN 3 ELSE 2
        IN  call_rets[1] = [subdomain |-> LeftOfLastLabels(call_args.domain, k),
                            domain    |-> LastLabels(call_args.domain, k)]

\* C7: splitting the registrable domain that parse_domain returned gives an
\* empty subdomain and the same registrable domain.
C7_ResplitIsIdentity ==
    (pc = "parse_domain" /\ Len(call_rets) = 2) =>
        call_rets[2] = [subdomain |-> << >>, domain |-> call_rets[1].domain]

\* C7 witness: a domain with a subdomain under a compound suffix was split
\* and its registrable domain (three labels) was split again.
C7_Witness ==
    /\ pc = "parse_domain"
    /\ Len(call_rets) = 2
    /\ call_rets[1].subdomain # << >>
    /\ Len(SplitDots(call_rets[1].domain)) = 3
    /\ \A i \in 1..3 : SplitDots(call_rets[1].domain)[i] # << >>

-----------------------------------------------------------------------------
(* Unit specification of parse_entry: Init draws the parts of a line; the  *)
(* calls parse the line in both layouts and in two respellings of its      *)
(* domain.                                                                 *)

MaxUserLen     == 42
MaxPasswordLen == 3
MaxTrail       == 11

Min(a, b) == IF a <= b THEN a ELSE b

\* usernames of n characters: one alphanumeric run; a run of at most 35
\* letters, a dot and the rest; one letter followed by dots
UsernamesOfLen(n) ==
    IF n = 0 THEN {<< >>}
    ELSE { Rep("a", n),
           Rep("a", Min(n - 1, UserRunMax)) \o <<".">>
               \o Rep("a", n - 1 - Min(n - 1, UserRunMax)),
           <<"a">> \o Rep(".", n - 1) }

LongUsernames == UNION {UsernamesOfLen(n) : n \in 0..MaxUserLen}

ShortUsernames == { <<"u">>, <<"U","1",".","n","_">>, <<"-","u">> }

PasswordAlphabet == {"p", "@", ":", ";"}

Passwords == StringsUpTo(PasswordAlphabet, MaxPasswordLen)

EntryDomains ==
    { <<"d",".","c","c">>,
      <<"D",".","C","c">>,
      <<"a",".","b",".","c","o",".","c","c">>,
      <<"s",".","D",".",".","c","c">>,
      <<"a","-","b",".","c","c">>,
      <<"l","o","c","a","l","h","o","s","t">>,
      <<"-","d",".","c","c">>,
      <<"a",".",".",".","c","c">>,
      <<"d","_",".","c","c">> }

EntryTlds == << <<"c","c">>, <<"c","o",".","c","c">> >>

EntryCases ==
    [username : ShortUsernames, sep : PassSep, password : Passwords,
     domain : EntryDomains, trail : {<< >>}, tlds : {EntryTlds}]
    \cup
    [username : LongUsernames, sep : PassSep, password : {<<"p">>},
     domain : {<<"d",".","c","c">>}, trail : {<< >>}, tlds : {EntryTlds}]
    \cup
    [username : {<<"u">>}, sep : PassSep, password : {<<"p">>},
     domain : {<<"d",".","c","c">>, <<"a",".","b",".","c","o",".","c","c">>},
     trail : {Rep(".", n) : n \in 0..MaxTrail}, tlds : {EntryTlds}]

\* the domain with its letters in upper case
to_uppercase(s) ==
    [i \in 1..Len(s) |->
        IF s[i] \in Lowers
        THEN UpperSeq[CHOOSE k \in 1..Len(LowerSeq) : LowerSeq[k] = s[i]]
        ELSE s[i]]

\* the domain with every single dot between two labels written ".."
RECURSIVE DoubleDots(_, _)
DoubleDots(s, i) ==
    IF i > Len(s) THEN << >>
    ELSE IF /\ s[i] = "."
            /\ i > 1 /\ s[i - 1] # "."
            /\ i < Len(s) /\ s[i + 1] # "."
         THEN <<".", ".">> \o DoubleDots(s, i + 1)
         ELSE <<s[i]>> \o DoubleDots(s, i + 1)

\* Layout A: username[:;]password@domain
LineA(a, domain) ==
    a.username \o <<a.sep>> \o a.password \o <<"@">> \o domain \o a.trail

\* Layout B: username@domain[:;]password
LineB(a, domain) ==
    a.username \o <<"@">> \o domain \o a.trail \o <<a.sep>> \o a.password

\* the lines of the four calls
EntryLines(a) ==
    << LineA(a, a.domain),
       LineB(a, a.domain),
       LineB(a, to_uppercase(a.domain)),
       LineB(a, DoubleDots(a.domain, 1)) >>

InitParseEntry ==
    /\ call_args \in EntryCases
    /\ st = SuffixTableNew(JoinSpace(call_args.tlds))
    /\ call_rets = << >>
    /\ input_type = "unit"
    /\ input = NoInput
    /\ archive = NoInput
    /\ pc = "parse_entry"
    /\ entry_i = 0
    /\ line_i = 0
    /\ output_writer = << >>
    /\ error_writer = << >>

\* parse_entry(line, &st) on the next of the four lines
CallParseEntry ==
    /\ pc = "parse_entry"
    /\ Len(call_rets) < Len(EntryLines(call_args))
    /\ call_rets' = Append(call_rets,
                           parse_entry(EntryLines(call_args)[Len(call_rets) + 1], st))
    /\ UnitFrame

NextParseEntry == CallParseEntry

SpecParseEntry == InitParseEntry /\ [][NextParseEntry]_vars

-----------------------------------------------------------------------------
(* Properties of parse_entry.  The shapes of a username and of a domain    *)
(* are stated here on the characters, not by the matchers above.           *)

\* word characters with punctuation groups: starts with an alphanumeric, at
\* most 10 punctuation characters, no more than 35 alphanumerics in a row
WellFormedUsername(u) ==
    /\ Len(u) >= 1
    /\ u[1] \in AlNum
    /\ \A i \in 1..Len(u) : u[i] \in AlNum \cup UserPunct
    /\ Cardinality({i \in 1..Len(u) : u[i] \in UserPunct}) <= UserGroupsMax
    /\ \A i \in 1..Len(u) :
          i + UserRunMax <= Len(u) => \E k \in i..(i + UserRunMax) : u[k] \notin AlNum

\* the characters of a username, whatever its length
AlphanumericUsername(u) == Len(u) >= 1 /\ \A i \in 1..Len(u) : u[i] \in AlNum

\* labels of letters, digits and inner hyphens, each of at most 63
\* characters, joined by one or two dots; the last label has no hyphen and
\* at least two characters
WellFormedDomain(d) ==
    /\ Len(d) >= 1
    /\ \A i \in 1..Len(d) : d[i] \in AlNum \cup {"-", "."}
    /\ d[1] \in AlNum /\ d[Len(d)] \in AlNum
    /\ \E i \in 1..Len(d) : d[i] = "."
    /\ \A i \in 1..(Len(d) - 2) : ~(d[i] = "." /\ d[i + 1] = "." /\ d[i + 2] = ".")
    /\ \A i \in 1..(Len(d) - 1) : ~(d[i] = "-" /\ d[i + 1] = ".")
    /\ \A i \in 1..(Len(d) - 1) : ~(d[i] = "." /\ d[i + 1] = "-")
    /\ LET labels == SplitDots(d)
           last   == labels[Len(labels)]
       IN  /\ Len(last) >= TldMin
           /\ \A i \in 1..Len(last) : last[i] \in AlNum
           /\ \A k \in 1..Len(labels) : Len(labels[k]) <= LabelMax

\* a password free of the three separator characters
PlainPassword(p) ==
    /\ Len(p) >= 1
    /\ \A i \in 1..Len(p) : p[i] \notin {"@", ":", ";"}

\* lowercased, dots collapsed: the domain a record is split from
Normalized(d) == replace_dotdot(to_lowercase(d))

\* subdomain and registrable domain put together again
Rejoined(r) ==
    IF r.subdomain = << >> THEN r.domain ELSE r.subdomain \o <<".">> \o r.domain

\* no upper-case letter, no "..", no dot at either end
NormalForm(s) ==
    /\ \A i \in 1..Len(s) : s[i] \notin Uppers
    /\ \A i \in 1..(Len(s) - 1) : ~(s[i] = "." /\ s[i + 1] = ".")
    /\ Len(s) >= 1 => (s[1] # "." /\ s[Len(s)] # ".")

EntryCalls == IF pc = "parse_entry" THEN Len(call_rets) ELSE 0

\* C2: a line U;P@D with a valid username, a password without ':' and a
\* valid domain is read as Layout A: username U, password P, domain D.
C2_SemicolonSelectsLayoutA ==
    (/\ EntryCalls >= 1
     /\ call_args.sep = ";"
     /\ WellFormedUsername(call_args.username)
     /\ Len(call_args.username) <= UsernameCap
     /\ Len(call_args.password) >= 1
     /\ \A i \in 1..Len(call_args.password) : call_args.password[i] # ":"
     /\ WellFormedDomain(call_args.domain)
     /\ call_args.trail = << >>) =>
        /\ call_rets[1].ok
        /\ call_rets[1].username = call_args.username
        /\ call_rets[1].password = call_args.password
        /\ Rejoined(call_rets[1]) = Normalized(call_args.domain)

\* the rest of the line is well formed and ':' separates the password
RestWellFormed ==
    /\ call_args.sep = ":"
    /\ PlainPassword(call_args.password)
    /\ WellFormedDomain(call_args.domain)
    /\ Len(call_args.trail) <= TrailDotsMax

\* C3 as stated: every username of exactly 40 characters parses, every
\* username of exactly 41 characters fails as too long.  Stated for the
\* usernames made of letters and digits only.
C3_LengthAloneDecides ==
    (/\ EntryCalls >= 2
     /\ RestWellFormed
     /\ AlphanumericUsername(call_args.username)) =>
        \A k \in 1..2 :
            /\ Len(call_args.username) = UsernameCap =>
                   call_rets[k].ok /\ call_rets[k].username = call_args.username
            /\ Len(call_args.username) = UsernameCap + 1 =>
                   call_rets[k] = Err(ErrTooLong)

\* C3 amended: a username within the pattern's own bounds parses when it has
\* at most 40 characters and fails as too long when it has more; any other
\* username, whatever its length, fails as a pattern mismatch.
C3_LengthBoundary ==
    (EntryCalls >= 2 /\ RestWellFormed) =>
        \A k \in 1..2 :
            IF WellFormedUsername(call_args.username)
            THEN IF Len(call_args.username) <= UsernameCap
                 THEN call_rets[k].ok /\ call_rets[k].username = call_args.username
                 ELSE call_rets[k] = Err(ErrTooLong)
            ELSE call_rets[k] = Err(ErrNoMatch)

\* C3 witness: a 41-character username within the pattern's bounds was
\* parsed in both layouts and failed as too long.
C3_Witness ==
    /\ EntryCalls >= 2
    /\ RestWellFormed
    /\ Len(call_args.username) = UsernameCap + 1
    /\ call_rets[1] = Err(ErrTooLong)
    /\ call_rets[2] = Err(ErrTooLong)

\* C5: for a valid username, a valid domain and a password without '@', ':'
\* and ';', "U:P@D" and "U@D:P" both parse, to the same four fields, with
\* username U and password P.
C5_LayoutsAgree ==
    (/\ EntryCalls >= 2
     /\ RestWellFormed
     /\ call_args.trail = << >>
     /\ WellFormedUsername(call_args.username)
     /\ Len(call_args.username) <= UsernameCap) =>
        /\ call_rets[1].ok
        /\ call_rets[2].ok
        /\ call_rets[1] = call_rets[2]
        /\ call_rets[1].username = call_args.username
        /\ call_rets[1].password = call_args.password

\* C5 witness: both layouts of a line whose domain has a subdomain under a
\* compound suffix were parsed.
C5_Witness ==
    /\ EntryCalls >= 2
    /\ RestWellFormed
    /\ call_args.trail = << >>
    /\ call_rets[1].ok
    /\ call_rets[2].ok
    /\ call_rets[2].subdomain # << >>
    /\ Len(SplitDots(call_rets[2].domain)) = 3

\* the 1-based offsets of the characters of line that belong to set
Offsets(line, set) == {i \in 1..Len(line) : line[i] \in set}
FirstOf(S) == CHOOSE i \in S : \A j \in S : i <= j
LastOf(S) == CHOOSE i \in S : \A j \in S : j <= i

\* C6: in Layout A the password is what lies between the first password
\* separator and the last '@' of the line; in Layout B it is everything
\* after the first ':' or ';' that follows the domain.  A password with
\* embedded separators is accepted whole.
C6_PasswordTakesEmbeddedSeparators ==
    /\ \A k \in 1..Min(EntryCalls, 2) :
          call_rets[k].ok =>
             LET line == EntryLines(call_args)[k]
             IN  IF line[FindSeparator(line) + 1] = ":"
                 THEN call_rets[k].password =
                          SubSeq(line, FirstOf(Offsets(line, PassSep)) + 1,
                                       LastOf(Offsets(line, {"@"})) - 1)
                 ELSE LET at  == FirstOf(Offsets(line, {"@"}))
                          sep == FirstOf({i \in Offsets(line, PassSep) : i > at})
                      IN  call_rets[k].password = SubSeq(line, sep + 1, Len(line))
    /\ (/\ WellFormedUsername(call_args.username)
        /\ Len(call_args.username) <= UsernameCap
        /\ WellFormedDomain(call_args.domain)
        /\ Len(call_args.trail) <= TrailDotsMax
        /\ Len(call_args.password) >= 1) =>
           /\ (EntryCalls >= 1 /\ call_args.sep = ":") =>
                  /\ call_rets[1].ok
                  /\ call_rets[1].username = call_args.username
                  /\ call_rets[1].password = call_args.password
           /\ EntryCalls >= 2 =>
                  /\ call_rets[2].ok
                  /\ call_rets[2].username = call_args.username
                  /\ call_rets[2].password = call_args.password

\* C6 witness: the password "p@p" was parsed in Layout A and the password
\* of Layout B holds an '@' as well.
C6_Witness ==
    /\ EntryCalls >= 2
    /\ call_args.password = <<"p", "@", "p">>
    /\ call_rets[1].ok
    /\ call_rets[1].password = <<"p", "@", "p">>
    /\ call_rets[2].ok
    /\ call_rets[2].password = <<"p", "@", "p">>

\* C8: the subdomain and the registrable domain of an accepted line hold no
\* upper-case letter and no "..", and neither starts nor ends with a dot;
\* respelling the domain in upper case or with ".." for "." changes neither.
C8_DomainNormalized ==
    /\ \A k \in 1..EntryCalls :
          call_rets[k].ok =>
              /\ NormalForm(call_rets[k].subdomain)
              /\ NormalForm(call_rets[k].domain)
    /\ EntryCalls = 4 =>
          \A k \in 3..4 :
              /\ call_rets[k].ok = call_rets[2].ok
              /\ call_rets[2].ok =>
                    /\ call_rets[k].subdomain = call_rets[2].subdomain
                    /\ call_rets[k].domain = call_rets[2].domain

\* C8 witness: a domain spelt with an upper-case letter and ".." was
\* accepted, with a subdomain, and so were its two respellings.
C8_Witness ==
    /\ EntryCalls = 4
    /\ \E i \in 1..Len(call_args.domain) : call_args.domain[i] \in Uppers
    /\ \E i \in 1..(Len(call_args.domain) - 1) :
          call_args.domain[i] = "." /\ call_args.domain[i + 1] = "."
    /\ call_rets[2].ok
    /\ call_rets[2].subdomain # << >>
    /\ call_rets[3].ok
    /\ call_rets[4].ok

-----------------------------------------------------------------------------
(* leaks_indexer/src/main.rs: Indexer *)

MaxInput == 4

\* an item of reader.lines(): Ok(line), or Err for bytes that are not UTF-8
OkLine(text) == [ok |-> TRUE, text |-> text]
ErrLine == [ok |-> FALSE, text |-> << >>]

InputItems ==
    { OkLine(<<"u","@","d",".","c","c",":","p">>),
      OkLine(<<" ","u",":","p","@","s",".","d",".","c","c">>),
      OkLine(<<"x">>),
      OkLine(<<"u","@","d",":","p"," ">>),
      ErrLine }

\* infer::MatcherType, and "None" when infer::get recognises nothing
MatcherTypes == {"App", "Archive", "Audio", "Book", "Doc", "Font", "Image",
                 "Text", "Video", "Custom"}

\* an item of archive.entries(): Ok(file) with the components of its path
\* and what infer::get makes of its leading bytes
Header(path, kind) == [ok |-> TRUE, path |-> path, kind |-> kind]

\* an item of archive.entries() that is Err: the header could not be read
ErrEntry == [ok |-> FALSE, path |-> << >>, kind |-> "None"]

Headers ==
    { Header(<< <<"d">>, <<"a">> >>, "None"),
      Header(<< <<"b",".","c","s","v">> >>, "None"),
      Header(<< <<"c">> >>, "Image"),
      Header(<< <<"e">> >>, "Video"),
      ErrEntry }

IsHeader(x) == "path" \in DOMAIN x

\* the members of a tar stream: each header with the lines that follow it
RECURSIVE GroupMembers(_, _, _)
GroupMembers(stream, i, acc) ==
    IF i > Len(stream) THEN acc
    ELSE IF IsHeader(stream[i])
         THEN GroupMembers(stream, i + 1,
                  Append(acc, [ok    |-> stream[i].ok,
                               path  |-> stream[i].path,
                               kind  |-> stream[i].kind,
                               lines |-> << >>]))
         ELSE GroupMembers(stream, i + 1,
                  [acc EXCEPT ![Len(acc)].lines = Append(@, stream[i])])

Archives ==
    { GroupMembers(stream, 1, << >>) :
        stream \in { x \in StringsUpTo(Headers \cup InputItems, MaxInput) :
                        x = << >> \/ IsHeader(x[1]) } }

IndexerTlds == << <<"c","c">>, <<"c","o",".","c","c">> >>

\* Indexer::new and the arguments of the run
Init ==
    /\ \/ /\ input_type = "plain"
          /\ input \in StringsUpTo(InputItems, MaxInput)
          /\ archive = NoInput
       \/ /\ input_type = "tar.gz"
          /\ input = NoInput
          /\ archive \in Archives
       \/ /\ input_type = "zip"
          /\ input = NoInput
          /\ archive = NoInput
    /\ st = SuffixTableNew(JoinSpace(IndexerTlds))
    /\ pc = "start"
    /\ entry_i = 0
    /\ line_i = 0
    /\ output_writer = << >>
    /\ error_writer = << >>
    /\ call_args = << >>
    /\ call_rets = << >>

\* Indexer::handle_by_type
HandleByType ==
    /\ pc = "start"
    /\ pc' = CASE input_type = "tar.gz" -> "process_archive"
               [] input_type = "plain"  -> "entry_reader"
               [] OTHER                 -> "panicked"
    /\ UNCHANGED <<input_type, st, input, archive, entry_i, line_i,
                   output_writer, error_writer, call_args, call_rets>>

\* Path::file_name().unwrap_or_default()
file_name(path) == IF path = << >> THEN << >> ELSE path[Len(path)]

\* Path::extension(): what follows the last dot of the file name, unless
\* there is no dot or the only dot starts the name
extension(path) ==
    LET name == file_name(path)
        dots == {i \in 1..Len(name) : name[i] = "."}
    IN  IF dots = {} THEN [some |-> FALSE, value |-> << >>]
        ELSE LET i == CHOOSE d \in dots : \A e \in dots : e <= d
             IN  IF i = 1 THEN [some |-> FALSE, value |-> << >>]
                 ELSE [some |-> TRUE, value |-> SubSeq(name, i + 1, Len(name))]

\* the members process_archive passes over
SniffedOut(member) == member.kind \in {"Doc", "Image", "Text", "Archive"}

CsvExtension(member) ==
    extension(member.path).some /\ extension(member.path).value = <<"c","s","v">>

\* format!("//{}\n", name)
Marker(member) == <<"/", "/">> \o file_name(member.path)

\* process_archive: archive.entries() is exhausted
ProcessArchiveEnd ==
    /\ pc = "process_archive"
    /\ entry_i = Len(archive)
    /\ pc' = "done"
    /\ UNCHANGED <<input_type, st, input, archive, entry_i, line_i,
                   output_writer, error_writer, call_args, call_rets>>

\* process_archive with an entry that is Err passed over instead of unwrapped
ProcessArchiveEntryError_continues ==
    /\ pc = "process_archive"
    /\ entry_i < Len(archive)
    /\ ~archive[entry_i + 1].ok
    /\ entry_i' = entry_i + 1
    /\ UNCHANGED <<input_type, st, input, archive, pc, line_i,
                   output_writer, error_writer, call_args, call_rets>>

\* process_archive: file.unwrap() on an entry that is Err panics
ProcessArchiveEntryError ==
    /\ pc = "process_archive"
    /\ entry_i < Len(archive)
    /\ ~archive[entry_i + 1].ok
    /\ pc' = "panicked"
    /\ UNCHANGED <<input_type, st, input, archive, entry_i, line_i,
                   output_writer, error_writer, call_args, call_rets>>

\* process_archive with the marker written before the checks that pass a
\* member over
ProcessArchiveSkip_writes_marker ==
    /\ pc = "process_archive"
    /\ entry_i < Len(archive)
    /\ archive[entry_i + 1].ok
    /\ SniffedOut(archive[entry_i + 1]) \/ CsvExtension(archive[entry_i + 1])
    /\ entry_i' = entry_i + 1
    /\ error_writer' = Append(error_writer, Marker(archive[entry_i + 1]))
    /\ UNCHANGED <<input_type, st, input, archive, pc, line_i,
                   output_writer, call_args, call_rets>>

\* process_archive: the next member is passed over (continue)
ProcessArchiveSkip ==
    /\ pc = "process_archive"
    /\ entry_i < Len(archive)
    /\ archive[entry_i + 1].ok
    /\ SniffedOut(archive[entry_i + 1]) \/ CsvExtension(archive[entry_i + 1])
    /\ entry_i' = entry_i + 1
    /\ UNCHANGED <<input_type, st, input, archive, pc, line_i,
                   output_writer, error_writer, call_args, call_rets>>

\* process_archive with the marker naming the whole path of the member
ProcessArchiveMember_marks_path ==
    /\ pc = "process_archive"
    /\ entry_i < Len(archive)
    /\ archive[entry_i + 1].ok
    /\ ~SniffedOut(archive[entry_i + 1])
    /\ ~CsvExtension(archive[entry_i + 1])
    /\ entry_i' = entry_i + 1
    /\ error_writer' = Append(error_writer,
                              <<"/", "/">> \o archive[entry_i + 1].path[1])
    /\ line_i' = 0
    /\ pc' = "entry_reader"
    /\ UNCHANGED <<input_type, st, input, archive, output_writer,
                   call_args, call_rets>>

\* process_archive: the marker of the next member is written and
\* entry_reader is entered on it
ProcessArchiveMember ==
    /\ pc = "process_archive"
    /\ entry_i < Len(archive)
    /\ archive[entry_i + 1].ok
    /\ ~SniffedOut(archive[entry_i + 1])
    /\ ~CsvExtension(archive[entry_i + 1])
    /\ entry_i' = entry_i + 1
    /\ error_writer' = Append(error_writer, Marker(archive[entry_i + 1]))
    /\ line_i' = 0
    /\ pc' = "entry_reader"
    /\ UNCHANGED <<input_type, st, input, archive, output_writer,
                   call_args, call_rets>>

\* the reader entry_reader was given
ReaderLines == IF input_type = "plain" THEN input ELSE archive[entry_i].lines

\* entry_reader with the lines that are not UTF-8 written to the error file
EntryReaderLine_quarantines_invalid ==
    /\ pc = "entry_reader"
    /\ line_i < Len(ReaderLines)
    /\ line_i' = line_i + 1
    /\ LET line == ReaderLines[line_i + 1]
           parsed == parse_entry(trim(line.text), st)
       IN  IF line.ok /\ parsed.ok
           THEN /\ output_writer' =
                     Append(output_writer,
                            <<parsed.domain, parsed.subdomain,
                              parsed.username, parsed.password>>)
                /\ UNCHANGED error_writer
           ELSE /\ error_writer' = Append(error_writer, line.text)
                /\ UNCHANGED output_writer
    /\ UNCHANGED <<input_type, st, input, archive, pc, entry_i,
                   call_args, call_rets>>

\* entry_reader with a row left out when the same row was written before
EntryReaderLine_dedups ==
    /\ pc = "entry_reader"
    /\ line_i < Len(ReaderLines)
    /\ line_i' = line_i + 1
    /\ LET line == ReaderLines[line_i + 1]
       IN  IF ~line.ok
           THEN UNCHANGED <<output_writer, error_writer>>
           ELSE LET trimmed == trim(line.text)
                    parsed  == parse_entry(trimmed, st)
                    row     == <<parsed.domain, parsed.subdomain,
                                 parsed.username, parsed.password>>
                IN  IF parsed.ok
                    THEN /\ output_writer' =
                              IF \E i \in 1..Len(output_writer) :
                                     output_writer[i] = row
                              THEN output_writer
                              ELSE Append(output_writer, row)
                         /\ UNCHANGED error_writer
                    ELSE /\ error_writer' = Append(error_writer, line.text)
                         /\ UNCHANGED output_writer
    /\ UNCHANGED <<input_type, st, input, archive, pc, entry_i,
                   call_args, call_rets>>

\* entry_reader: one turn of the loop over reader.lines()
EntryReaderLine ==
    /\ pc = "entry_reader"
    /\ line_i < Len(ReaderLines)
    /\ line_i' = line_i + 1
    /\ LET line == ReaderLines[line_i + 1]
       IN  IF ~line.ok
           THEN UNCHANGED <<output_writer, error_writer>>
           ELSE LET trimmed == trim(line.text)
                    parsed  == parse_entry(trimmed, st)
                IN  IF parsed.ok
                    THEN /\ output_writer' =
                              Append(output_writer,
                                     <<parsed.domain, parsed.subdomain,
                                       parsed.username, parsed.password>>)
                         /\ UNCHANGED error_writer
                    ELSE /\ error_writer' = Append(error_writer, line.text)
                         /\ UNCHANGED output_writer
    /\ UNCHANGED <<input_type, st, input, archive, pc, entry_i,
                   call_args, call_rets>>

\* entry_reader: reader.lines() is exhausted and entry_reader returns
EntryReaderEnd ==
    /\ pc = "entry_reader"
    /\ line_i = Len(ReaderLines)
    /\ pc' = IF input_type = "plain" THEN "done" ELSE "process_archive"
    /\ UNCHANGED <<input_type, st, input, archive, entry_i, line_i,
                   output_writer, error_writer, call_args, call_rets>>

Next ==
    \/ HandleByType
    \/ ProcessArchiveEnd
    \/ ProcessArchiveEntryError
    \/ ProcessArchiveSkip
    \/ ProcessArchiveMember
    \/ EntryReaderLine
    \/ EntryReaderEnd

Spec == Init /\ [][Next]_vars

-----------------------------------------------------------------------------
(* Properties of the Indexer *)

\* a turn of entry_reader's loop in plain mode: one more item was taken
PlainLineTaken ==
    /\ input_type = "plain"
    /\ pc = "entry_reader"
    /\ line_i' = line_i + 1

RowAppended == Len(output_writer') = Len(output_writer) + 1
               /\ SubSeq(output_writer', 1, Len(output_writer)) = output_writer

LineQuarantined == Len(error_writer') = Len(error_writer) + 1
                   /\ SubSeq(error_writer', 1, Len(error_writer)) = error_writer

ExactlyOneAppend ==
    \/ RowAppended /\ UNCHANGED error_writer
    \/ LineQuarantined /\ UNCHANGED output_writer

\* C1 as stated: in plain mode every input line causes exactly one append,
\* a row or a quarantine line, never both and never neither.
C1_EveryLineOneAppend == [][PlainLineTaken => ExactlyOneAppend]_vars

\* C1 amended: in plain mode every input line that is valid text causes
\* exactly one append, its row or the line itself in quarantine; a line that
\* is not valid text causes none.
C1_EveryTextLineOneAppend ==
    [][PlainLineTaken =>
         IF input[line_i'].ok
         THEN \/ /\ RowAppended
                 /\ UNCHANGED error_writer
                 /\ parse_entry(trim(input[line_i'].text), st).ok
              \/ /\ LineQuarantined
                 /\ UNCHANGED output_writer
                 /\ error_writer'[Len(error_writer')] = input[line_i'].text
                 /\ ~parse_entry(trim(input[line_i'].text), st).ok
         ELSE UNCHANGED <<output_writer, error_writer>>]_vars

\* C1 witness: a plain run ended that took a parsed line, a quarantined
\* line and a line that is not valid text.
C1_Witness ==
    /\ input_type = "plain"
    /\ pc = "done"
    /\ Len(output_writer) >= 1
    /\ Len(error_writer) >= 1
    /\ \E i \in 1..Len(input) : ~input[i].ok
    /\ Len(output_writer) + Len(error_writer) < Len(input)

\* the lines of a member that reached the extractor and failed, in order
RECURSIVE FailedLines(_, _)
FailedLines(lines, n) ==
    IF n = 0 THEN << >>
    ELSE LET before == FailedLines(lines, n - 1)
         IN  IF lines[n].ok /\ ~parse_entry(trim(lines[n].text), st).ok
             THEN Append(before, lines[n].text)
             ELSE before

PassedOver(member) ==
    \/ member.kind \in {"Doc", "Image", "Archive", "Text"}
    \/ LET name == member.path[Len(member.path)]
       IN  /\ Len(name) > 4
           /\ SubSeq(name, Len(name) - 3, Len(name)) = <<".", "c", "s", "v">>

MemberName(member) == member.path[Len(member.path)]

\* what the first n members leave in the quarantine sink, the last of them
\* read up to its k-th line
RECURSIVE QuarantineOf(_, _, _)
QuarantineOf(members, n, k) ==
    IF n = 0 THEN << >>
    ELSE LET before == IF n = 1 THEN << >>
                       ELSE QuarantineOf(members, n - 1, Len(members[n - 1].lines))
         IN  IF PassedOver(members[n]) THEN before
             ELSE before \o << <<"/", "/">> \o MemberName(members[n]) >>
                         \o FailedLines(members[n].lines, k)

\* C9: in archive mode the quarantine sink holds, for each member that is
\* not passed over, in archive order, one marker line "//<name>" followed by
\* that member's failed lines in their order, and nothing else.
C9_QuarantineMemberDelimited ==
    input_type = "tar.gz" =>
        error_writer =
            QuarantineOf(archive, entry_i,
                         IF entry_i = 0 THEN 0
                         ELSE IF pc = "entry_reader" THEN line_i
                         ELSE Len(archive[entry_i].lines))

\* C9 witness: an archive run ended with two processed members, the first
\* with two different failed lines, and the sink holds marker, line, line,
\* marker.
C9_Witness ==
    /\ input_type = "tar.gz"
    /\ pc = "done"
    /\ Len(archive) = 2
    /\ ~PassedOver(archive[1])
    /\ ~PassedOver(archive[2])
    /\ Len(FailedLines(archive[1].lines, Len(archive[1].lines))) = 2
    /\ Len(error_writer) = 4
    /\ error_writer[2] # error_writer[3]
    /\ error_writer[4] = <<"/", "/">> \o MemberName(archive[2])

\* C10: a member recognised as a document, an image, an archive or marked-up
\* text, or named *.csv, appends nothing to either sink, and the run goes on
\* to the members after it.
C10_SkipLeavesSinks ==
    /\ [][(/\ input_type = "tar.gz"
           /\ entry_i' = entry_i + 1
           /\ PassedOver(archive[entry_i'])) =>
              /\ UNCHANGED <<output_writer, error_writer>>
              /\ pc' = "process_archive"]_vars
    /\ [](input_type = "tar.gz" =>
              /\ pc = "done" => entry_i = Len(archive)
              /\ ~(pc = "entry_reader" /\ PassedOver(archive[entry_i])))

\* C10 witness: an archive run ended in which a passed-over member with
\* lines came first and a processed member after it left its marker.
C10_Witness ==
    /\ input_type = "tar.gz"
    /\ pc = "done"
    /\ Len(archive) >= 2
    /\ PassedOver(archive[1])
    /\ Len(archive[1].lines) >= 1
    /\ ~PassedOver(archive[2])
    /\ Len(error_writer) >= 2
    /\ error_writer[1] = <<"/", "/">> \o MemberName(archive[2])

\* a read error is raised in archive mode: archive.entries() yields Err, or
\* reader.lines() yields Err inside a member
EntryErrorRaised ==
    /\ input_type = "tar.gz"
    /\ pc = "process_archive"
    /\ entry_i < Len(archive)
    /\ ~archive[entry_i + 1].ok
    /\ pc' # pc \/ entry_i' # entry_i

LineErrorRaised ==
    /\ input_type = "tar.gz"
    /\ pc = "entry_reader"
    /\ line_i' = line_i + 1
    /\ ~archive[entry_i].lines[line_i'].ok

\* the index of the first entry of the archive that is Err, 0 if none
FirstErrEntry ==
    LET errs == {k \in 1..Len(archive) : ~archive[k].ok}
    IN  IF errs = {} THEN 0 ELSE CHOOSE k \in errs : \A j \in errs : k <= j

\* C11 as stated: in archive mode a read error, raised while advancing to a
\* member or while reading a member's lines, aborts the run.
C11_AnyReadErrorAborts ==
    [][(EntryErrorRaised \/ LineErrorRaised) => pc' = "panicked"]_vars

\* C11 amended: an error raised while advancing to a member aborts the run,
\* and nothing of that entry or of a later one is processed; an error raised
\* while reading a member's lines drops that item only, and the reading of
\* the member goes on.
C11_EntryErrorAborts ==
    /\ [][EntryErrorRaised =>
             /\ pc' = "panicked"
             /\ UNCHANGED <<output_writer, error_writer>>]_vars
    /\ [][LineErrorRaised =>
             /\ pc' = "entry_reader"
             /\ UNCHANGED <<output_writer, error_writer, entry_i>>]_vars
    /\ [][pc = "panicked" =>
             /\ pc' = "panicked"
             /\ UNCHANGED <<output_writer, error_writer, entry_i, line_i>>]_vars
    /\ []((input_type = "tar.gz" /\ FirstErrEntry # 0) =>
             /\ entry_i < FirstErrEntry
             /\ pc # "done")

\* C11 witness: an archive run panicked on its second entry, after a first
\* member in which a line was read and written after a line that was Err.
C11_Witness ==
    /\ input_type = "tar.gz"
    /\ pc = "panicked"
    /\ entry_i = 1
    /\ Len(archive) = 2
    /\ ~archive[2].ok
    /\ Len(archive[1].lines) = 2
    /\ ~archive[1].lines[1].ok
    /\ Len(output_writer) = 1

\* the rows of the first n lines that parse, in order: registrable domain,
\* subdomain, username, password
RECURSIVE ParsedRows(_, _)
ParsedRows(lines, n) ==
    IF n = 0 THEN << >>
    ELSE LET before == ParsedRows(lines, n - 1)
             parsed == parse_entry(trim(lines[n].text), st)
         IN  IF lines[n].ok /\ parsed.ok
             THEN Append(before, <<parsed.domain, parsed.subdomain,
                                   parsed.username, parsed.password>>)
             ELSE before

\* the rows of the first n members, the last of them read up to line k
RECURSIVE RowsOf(_, _, _)
RowsOf(members, n, k) ==
    IF n = 0 THEN << >>
    ELSE LET before == IF n = 1 THEN << >>
                       ELSE RowsOf(members, n - 1, Len(members[n - 1].lines))
         IN  IF PassedOver(members[n]) THEN before
             ELSE before \o ParsedRows(members[n].lines, k)

\* C12: the rows written are exactly the lines read so far that parse, in
\* input order, one row (registrable domain, subdomain, username, password)
\* per such line, repeated lines giving repeated rows.
C12_RowsFollowInput ==
    /\ input_type = "plain" => output_writer = ParsedRows(input, line_i)
    /\ input_type = "tar.gz" =>
           output_writer =
               RowsOf(archive, entry_i,
                      IF entry_i = 0 THEN 0
                      ELSE IF pc = "entry_reader" THEN line_i
                      ELSE Len(archive[entry_i].lines))

\* C12 witness: a plain run ended on four lines, the first and the last the
\* same parsed line, with a parsed line with a subdomain and a failed line
\* between them; three rows were written, the first and the third equal.
C12_Witness ==
    /\ input_type = "plain"
    /\ pc = "done"
    /\ Len(input) = 4
    /\ input[1] = input[4]
    /\ Len(output_writer) = 3
    /\ Len(error_writer) = 1
    /\ output_writer[1] = output_writer[3]
    /\ output_writer[2][2] # << >>

-----------------------------------------------------------------------------
(* Unit specification of parse_tld: Init draws the items of reader.lines() *)
(* of a suffix-list file; the call reads them.                             *)

MaxTldLines == 3

TldLines ==
    { OkLine(<<" ">>),
      OkLine(<<"/","/"," ","c">>),
      OkLine(<<"c","c">>),
      OkLine(<<" ","c","o",".","c","c","\t">>),
      OkLine(PrivateDomainsMark \o <<"=","=","=">>),
      OkLine(<<" ">> \o PrivateDomainsMark),
      OkLine(SubSeq(PrivateDomainsMark, 1, Len(PrivateDomainsMark) - 1)),
      OkLine(<<"c"," ">> \o PrivateDomainsMark),
      ErrLine }

InitParseTld ==
    /\ call_args \in [lines : StringsUpTo(TldLines, MaxTldLines)]
    /\ call_rets = << >>
    /\ st = SuffixTableNew(<< >>)
    /\ input_type = "unit"
    /\ input = NoInput
    /\ archive = NoInput
    /\ pc = "parse_tld"
    /\ entry_i = 0
    /\ line_i = 0
    /\ output_writer = << >>
    /\ error_writer = << >>

\* let tlds = parse_tld(&mut reader);
CallParseTld ==
    /\ pc = "parse_tld"
    /\ call_rets = << >>
    /\ call_rets' = <<parse_tld(call_args.lines)>>
    /\ UnitFrame

NextParseTld == CallParseTld

SpecParseTld == InitParseTld /\ [][NextParseTld]_vars

\* a line that, trimmed, starts with the mark of the private domains
IsMarkLine(line) == line.ok /\ starts_with(trim(line.text), PrivateDomainsMark)

\* the lines before the first mark line, all of them if there is none
BeforeMark(lines) ==
    LET marks == {i \in 1..Len(lines) : IsMarkLine(lines[i])}
    IN  IF marks = {} THEN lines
        ELSE SubSeq(lines, 1, (CHOOSE i \in marks : \A j \in marks : i <= j) - 1)

\* the trimmed lines that are neither blank nor comments, in order
RECURSIVE Listed(_)
Listed(lines) ==
    IF lines = << >> THEN << >>
    ELSE LET t == trim(lines[1].text)
         IN  IF t # << >> /\ ~(Len(t) >= 2 /\ t[1] = "/" /\ t[2] = "/")
             THEN <<t>> \o Listed(Tail(lines))
             ELSE Listed(Tail(lines))

TldCalls == IF pc = "parse_tld" THEN Len(call_rets) ELSE 0

\* C13: parse_tld returns the trimmed lines that are neither blank nor
\* comments and come before the first mark line, in input order, joined by
\* single spaces; nothing at or after the mark line contributes.  It
\* returns whenever every line before the mark line can be read.
C13_ListEndsAtMark ==
    TldCalls = 1 =>
        LET head == BeforeMark(call_args.lines)
        IN  /\ call_rets[1].ok <=> \A i \in 1..Len(head) : head[i].ok
            /\ call_rets[1].ok => call_rets[1].res = JoinSpace(Listed(head))

\* C13 witness: three lines were read, a suffix with blanks around it, an
\* indented mark line and a line that cannot be read; the suffix, trimmed,
\* was returned.
C13_Witness ==
    /\ TldCalls = 1
    /\ Len(call_args.lines) = 3
    /\ call_args.lines[1] = OkLine(<<" ","c","o",".","c","c","\t">>)
    /\ call_args.lines[2] = OkLine(<<" ">> \o PrivateDomainsMark)
    /\ call_args.lines[3] = ErrLine
    /\ call_rets[1] = [ok |-> TRUE, res |-> <<"c","o",".","c","c">>]

-----------------------------------------------------------------------------
(* Further properties of parse_domain, under SpecParseDomain *)

\* the number of dots of s
DotCount(s) == Cardinality({i \in 1..Len(s) : s[i] = "."})

\* C14: a domain without a dot, or with exactly one dot, comes back whole
\* as the registrable domain, with an empty subdomain, whatever the suffix
\* list.
C14_FewDotsKeptWhole ==
    (SplitDone /\ DotCount(call_args.domain) <= 1) =>
        call_rets[1] = [subdomain |-> << >>, domain |-> call_args.domain]

\* C14 witness: a domain with exactly one dot that is itself an entry of the
\* suffix list was split and came back whole.
C14_Witness ==
    /\ SplitDone
    /\ call_args.domain = <<"a",".","u">>
    /\ <<"a",".","u">> \in SuffixEntries
    /\ call_rets[1] = [subdomain |-> << >>, domain |-> <<"a",".","u">>]

\* r is a suffix of d
IsSuffixOf(r, d) ==
    Len(r) <= Len(d) /\ SubSeq(d, Len(d) - Len(r) + 1, Len(d)) = r

\* C17: the result (s, r) of parse_domain on D has D = r or D = s.r, r is a
\* suffix of D, and for a D that does not start with a dot s is empty
\* exactly when r = D.
C17_SplitIsLossless ==
    SplitDone =>
        LET D == call_args.domain
            s == call_rets[1].subdomain
            r == call_rets[1].domain
        IN  /\ D = r \/ D = s \o <<".">> \o r
            /\ IsSuffixOf(r, D)
            /\ (D = << >> \/ D[1] # ".") => (s = << >> <=> r = D)

\* C17 witness: a domain of four labels under a compound suffix was split
\* into a non-empty subdomain and a registrable domain of three labels.
C17_Witness ==
    /\ SplitDone
    /\ DotCount(call_args.domain) = 3
    /\ call_args.domain[1] # "."
    /\ call_rets[1].subdomain # << >>
    /\ DotCount(call_rets[1].domain) = 2
    /\ call_args.domain =
           call_rets[1].subdomain \o <<".">> \o call_rets[1].domain

-----------------------------------------------------------------------------
(* leaks_ctj/src/main.rs: split *)

\* Sum of x.data.len() over the groups
RECURSIVE TotalPairs(_)
TotalPairs(credentials) ==
    IF credentials = << >> THEN 0
    ELSE Len(credentials[1].data) + TotalPairs(Tail(credentials))

\* the inner loop of split over left, from slot i on, for the group x:
\* x is pushed whole into the first slot with room for it, after giving
\* its tail (split_off) to each slot it passes that it does not fit
RECURSIVE SplitGroup(_, _, _, _)
SplitGroup(x, i, left, splits) ==
    IF i > Len(left) THEN [left |-> left, splits |-> splits]
    ELSE IF left[i] = 0 THEN SplitGroup(x, i + 1, left, splits)
    ELSE LET x_len == Len(x.data)
         IN  IF x_len <= left[i]
             THEN [left   |-> [left EXCEPT ![i] = @ - x_len],
                   splits |-> [splits EXCEPT
                                 ![i].credentials = Append(@, x)]]
             ELSE LET point == x_len - left[i]
                      cd    == [subdomain |-> x.subdomain,
                                data      |-> SubSeq(x.data, point + 1, x_len)]
                      rest  == [x EXCEPT !.data = SubSeq(x.data, 1, point)]
                  IN  SplitGroup(rest, i + 1,
                                 [left EXCEPT ![i] = 0],
                                 [splits EXCEPT
                                    ![i].credentials = Append(@, cd)])

\* the outer loop of split over leak_data.credentials, from group k on
RECURSIVE SplitLoop(_, _, _, _)
SplitLoop(credentials, k, left, splits) ==
    IF k > Len(credentials) THEN splits
    ELSE LET after == SplitGroup(credentials[k], 1, left, splits)
         IN  SplitLoop(credentials, k + 1, after.left, after.splits)

\* split with every slot given total / n and the last slot nothing more
split_without_remainder(leak_data, n) ==
    LET splits == [i \in 1..n |-> [domain      |-> leak_data.domain,
                                   credentials |-> << >>]]
        total  == TotalPairs(leak_data.credentials)
        neach  == total \div n
        left   == [i \in 1..n |-> neach]
    IN  SplitLoop(leak_data.credentials, 1, left, splits)

\* split(leak_data, n) -> Vec<LeakData>, for n >= 1
split(leak_data, n) ==
    LET splits == [i \in 1..n |-> [domain      |-> leak_data.domain,
                                   credentials |-> << >>]]
        total  == TotalPairs(leak_data.credentials)
        neach  == total \div n
        left   == [i \in 1..n |-> IF i = n THEN neach + (total - neach)
                                           ELSE neach]
    IN  SplitLoop(leak_data.credentials, 1, left, splits)

-----------------------------------------------------------------------------
(* Unit specification of split: Init draws a LeakData, its groups under    *)
(* different subdomains, and the number of parts.                          *)

MaxGroups == 2
MaxPairs == 3
MaxParts == 3

\* (username, password)
Pairs == { <<<<"k">>, <<"k">>>>, <<<<"q">>, <<"p">>>> }

\* the groups of a LeakData: the i-th of them under the subdomain of i - 1
\* letters, with the pairs drawn
GroupsOf(datas) ==
    [i \in 1..Len(datas) |-> [subdomain |-> Rep("s", i - 1), data |-> datas[i]]]

LeakDatas ==
    { [domain |-> <<"d",".","c","c">>, credentials |-> GroupsOf(datas)] :
        datas \in StringsUpTo(StringsUpTo(Pairs, MaxPairs), MaxGroups) }

InitSplit ==
    /\ call_args \in [leak_data : LeakDatas, n : 1..MaxParts]
    /\ call_rets = << >>
    /\ st = SuffixTableNew(<< >>)
    /\ input_type = "unit"
    /\ input = NoInput
    /\ archive = NoInput
    /\ pc = "split"
    /\ entry_i = 0
    /\ line_i = 0
    /\ output_writer = << >>
    /\ error_writer = << >>

\* split(test_data, n)
CallSplit ==
    /\ pc = "split"
    /\ call_rets = << >>
    /\ call_rets' = <<split(call_args.leak_data, call_args.n)>>
    /\ UnitFrame

NextSplit == CallSplit

SpecSplit == InitSplit /\ [][NextSplit]_vars

SplitCalls == IF pc = "split" THEN Len(call_rets) ELSE 0

\* how many times the pair p occurs in the groups
RECURSIVE Occurrences(_, _)
Occurrences(credentials, p) ==
    IF credentials = << >> THEN 0
    ELSE Cardinality({j \in 1..Len(credentials[1].data) :
                         credentials[1].data[j] = p})
         + Occurrences(Tail(credentials), p)

\* how many times the pair p occurs in the first m parts
RECURSIVE OccurrencesInParts(_, _, _)
OccurrencesInParts(parts, m, p) ==
    IF m = 0 THEN 0
    ELSE Occurrences(parts[m].credentials, p)
         + OccurrencesInParts(parts, m - 1, p)

\* C15: split returns exactly n parts, each with the domain of the input,
\* and every pair occurs in the parts together as often as in the input.
C15_SplitConservesPairs ==
    SplitCalls = 1 =>
        LET parts == call_rets[1]
        IN  /\ Len(parts) = call_args.n
            /\ \A i \in 1..Len(parts) :
                   parts[i].domain = call_args.leak_data.domain
            /\ \A p \in Pairs :
                   OccurrencesInParts(parts, Len(parts), p)
                       = Occurrences(call_args.leak_data.credentials, p)

\* C15 witness: two groups of three and two pairs were split in three
\* parts; the first group was cut, and no part is empty.
C15_Witness ==
    /\ SplitCalls = 1
    /\ call_args.n = 3
    /\ Len(call_args.leak_data.credentials) = 2
    /\ Len(call_args.leak_data.credentials[1].data) = 3
    /\ Len(call_args.leak_data.credentials[2].data) = 2
    /\ \A i \in 1..3 : call_rets[1][i].credentials # << >>
    /\ Len(call_rets[1][1].credentials[1].data) = 1

-----------------------------------------------------------------------------
(* Further properties of parse_entry, under SpecParseEntry *)

\* C16: parse_entry never fails with the empty-domain failure; every record
\* it returns has a registrable domain that is not empty and contains a
\* dot; a line whose domain is a single label is rejected.
C16_EmptyDomainUnreachable ==
    EntryCalls >= 1 =>
        \A k \in 1..Len(call_rets) :
            /\ call_rets[k] # Err(ErrEmptyDomain)
            /\ call_rets[k].ok =>
                   /\ call_rets[k].domain # << >>
                   /\ \E i \in 1..Len(call_rets[k].domain) :
                          call_rets[k].domain[i] = "."
            /\ (\A i \in 1..Len(call_args.domain) : call_args.domain[i] # ".")
                   => ~call_rets[k].ok

\* C16 witness: a line with the single-label domain "localhost", a username
\* and a password that are in order, was rejected in both layouts as a
\* pattern mismatch.
C16_Witness ==
    /\ EntryCalls >= 2
    /\ call_args.domain = <<"l","o","c","a","l","h","o","s","t">>
    /\ call_args.username = <<"u">>
    /\ call_args.password = <<"p">>
    /\ call_args.sep = ":"
    /\ call_args.trail = << >>
    /\ call_rets[1] = Err(ErrNoMatch)
    /\ call_rets[2] = Err(ErrNoMatch)

====
